---- MODULE Spec2Model ----
(***************************************************************************)
(* SpotifySleepTimer.py as a state machine.                                *)
(*                                                                         *)
(* One process at a time runs either the script (__main__: argv parsing,   *)
(* get_config, sleep_timer) or a direct call of sleep_timer with an        *)
(* arbitrary music_stop_time.  The config file and the player of the       *)
(* streaming service outlive a run; everything else is per run.            *)
(*                                                                         *)
(* Time is counted in ticks of the clock datetime.now() reads; `now` is    *)
(* the clock's value relative to the start of the run.  A call of the      *)
(* external API takes 0..MaxLatency ticks, sleep(interval) takes           *)
(* interval..interval+MaxOversleep ticks.                                  *)
(***************************************************************************)
EXTENDS Integers, Sequences, FiniteSets, TLC

\* ------------------------------------------------------------------ bounds
MaxSeconds == 2
MaxInterval == 2
MaxLatency == 1
MaxOversleep == 1

\* elapced_time_check_interval's default, in ticks of one second.
DefaultInterval == 1

VARIABLES
    pc,               \* position of the running process
    mode,             \* "cli" (the script) or "call" (sleep_timer called directly)
    argv,             \* sys.argv[1:] of the run, as [kind, val]
    music_stop_time,  \* the python value handed to sleep_timer, as [kind, val]
    interval,         \* elapced_time_check_interval
    file,             \* ./config.json: Absent or its parsed record
    config,           \* what get_config returned (Absent before)
    credentials,      \* sleep_timer's username, client_id, client_secret, scope, redirect_uri
    player,           \* the service's player: "none", "playing", "paused"
    now,              \* datetime.now()
    start_time,       \* sleep_timer's start_time (-1: not set)
    stop_time,        \* sleep_timer's stop_time (NoSpan: not set)
    result,           \* "none" while running, "ok", or the error that ended the run
    entry,            \* what is_playing returned at line 71 ("none", "T", "F")
    recheck,          \* what is_playing returned at line 111
    nAuth,            \* session acquisitions of this run
    nQuery,           \* currently_playing queries of this run
    nSleep,           \* sleep() calls of this run
    nPause,           \* pause_playback commands issued in this run
    nPauseOk,         \* ... of them, that took effect
    nWrite,           \* writes of ./config.json in this run
    nGetConfig,       \* get_config calls of this run
    fileAtCall,       \* the file as get_config found it ("unread" before)
    lastCheck,        \* the clock at the loop's previous elapsed-time check (-1: none)
    stopped,          \* playback left "playing" after the entry check of this run
    stoppedEarly      \* ... while the wait loop ran with elapsed <= stop_time

vars == <<pc, mode, argv, music_stop_time, interval, file, config, credentials,
          player, now, start_time, stop_time, result, entry, recheck, nAuth,
          nQuery, nSleep, nPause, nPauseOk, nWrite, nGetConfig, fileAtCall,
          lastCheck, stopped, stoppedEarly>>

\* ------------------------------------------------------------ python values
\* A python value is [kind, val]; val is the number of ticks (seconds, a
\* datetime's instant, a timedelta's length) and 0 where the kind has none.
Val(k, v) == [kind |-> k, val |-> v]

NoSpan == Val("unset", 0)
Span(v) == Val("timedelta", v)

\* Mutant: a check that rejects bool, as type(x) in (int, float) would.
IsNumber_Strict(x) == x.kind \in {"int", "float", "float_nonfinite"}

\* isinstance(x, (int, float)): bool is a subclass of int.
IsNumber(x) == x.kind \in {"int", "float", "bool", "float_nonfinite"}
IsDatetime(x) == x.kind = "datetime"
IsTimedelta(x) == x.kind = "timedelta"

\* Mutant: line 84's check of a negative span left out.
ToDuration_NoPastCheck(x, t) ==
    LET span == IF IsNumber(x) THEN x.val
                ELSE IF IsDatetime(x) THEN x.val - t
                ELSE IF IsTimedelta(x) THEN x.val
                ELSE 0
    IN  IF IsNumber(x) /\ x.kind = "float_nonfinite"
            THEN [err |-> "OverflowError", span |-> NoSpan]
        ELSE IF ~(IsNumber(x) \/ IsDatetime(x) \/ IsTimedelta(x))
            THEN [err |-> "UnconvertibleDuration", span |-> NoSpan]
        ELSE [err |-> "", span |-> Span(span)]

\* float(sys.argv[1]): the value, or the exception of a missing or unparsable
\* argument.  "nan" and "inf" parse.
Float(arg) ==
    CASE arg.kind = "missing" -> [err |-> "IndexError", value |-> Val("NoneType", 0)]
      [] arg.kind = "text" -> [err |-> "ValueError", value |-> Val("NoneType", 0)]
      [] arg.kind = "nonfinite" -> [err |-> "", value |-> Val("float_nonfinite", 0)]
      [] OTHER -> [err |-> "", value |-> Val("float", arg.val)]

\* Lines 75-85: music_stop_time to a timedelta, at clock value t.
\* timedelta(seconds=x) raises for nan and inf.
ToDuration(x, t) ==
    LET span == IF IsNumber(x) THEN x.val
                ELSE IF IsDatetime(x) THEN x.val - t
                ELSE IF IsTimedelta(x) THEN x.val
                ELSE 0
    IN  IF IsNumber(x) /\ x.kind = "float_nonfinite"
            THEN [err |-> "OverflowError", span |-> NoSpan]
        ELSE IF ~(IsNumber(x) \/ IsDatetime(x) \/ IsTimedelta(x))
            THEN [err |-> "UnconvertibleDuration", span |-> NoSpan]
        ELSE IF span < 0
            THEN [err |-> "PastDuration", span |-> NoSpan]
        ELSE [err |-> "", span |-> Span(span)]

\* spotify.currently_playing(): None (the empty sequence) or the track record.
CurrentlyPlaying(p) ==
    IF p = "none" THEN <<>> ELSE <<[is_playing |-> (p = "playing")]>>

IsPlaying(current_playing_track) ==
    IF current_playing_track = <<>> THEN FALSE
    ELSE current_playing_track[1].is_playing

\* Mutants: the comparison of line 106 reversed, and made non-strict.
LoopBreak_Reversed(elapsed_time, stop) == elapsed_time < stop.val
LoopBreak_AtLeast(elapsed_time, stop) == elapsed_time >= stop.val

\* Line 106: the loop's break condition.
LoopBreak(elapsed_time, stop) == elapsed_time > stop.val

\* ------------------------------------------------------------ config values
ConfigKeys == {"username", "client_id", "client_secret", "scope", "redirect_uri"}

\* A JSON object of the config file: the keys it holds, the keys whose value is
\* not of the type the script expects (nonstr), and the values.
Json(ks, bad, u, id, secret, sc, uri) ==
    [keys |-> ks, nonstr |-> bad, username |-> u, client_id |-> id,
     client_secret |-> secret, scope |-> sc, redirect_uri |-> uri]

default_config ==
    Json(ConfigKeys, {}, "", "", "",
         <<"user-modify-playback-state", "user-read-currently-playing">>,
         "http://localhost:8080")

NoArgs == Json({}, {}, "", "", "", <<>>, "")

Absent == [exists |-> FALSE, data |-> NoArgs]
Stored(d) == [exists |-> TRUE, data |-> d]

\* The arguments a direct caller of sleep_timer passes.
CallerCredentials ==
    Json(ConfigKeys, {}, "me", "id", "secret", default_config.scope, default_config.redirect_uri)

\* What a manual edit of the file may leave behind: the credentials filled in,
\* a value of the wrong type, a key dropped.
EditedConfigs ==
    { CallerCredentials,
      Json(ConfigKeys, {"username"}, "", "id", "secret", default_config.scope, default_config.redirect_uri),
      Json(ConfigKeys \ {"scope"}, {}, "me", "id", "secret", <<>>, default_config.redirect_uri) }

\* ------------------------------------------------------------------ inputs
Seconds == -1 .. MaxSeconds
Intervals == 1 .. MaxInterval

Argvs ==
    {Val("missing", 0), Val("text", 0), Val("nonfinite", 0)}
        \cup {Val("number", s) : s \in Seconds}

StopTimes ==
    {Val(k, s) : k \in {"int", "float", "datetime", "timedelta"}, s \in Seconds}
        \cup {Val("bool", b) : b \in {0, 1}}
        \cup {Val("float_nonfinite", 0), Val("str", 0), Val("dict", 0), Val("NoneType", 0)}

Players == {"none", "playing", "paused"}

Errors ==
    {"InvalidStopTime", "ConfigMissing", "KeyError", "UnconvertibleDuration",
     "PastDuration", "OverflowError", "ExternalApiFailure"}

Init ==
    /\ pc = "idle"
    /\ mode = "cli"
    /\ argv = Val("missing", 0)
    /\ music_stop_time = Val("NoneType", 0)
    /\ interval = DefaultInterval
    /\ file = Absent
    /\ config = NoArgs
    /\ credentials = NoArgs
    /\ player \in Players
    /\ now = 0
    /\ start_time = -1
    /\ stop_time = NoSpan
    /\ result = "none"
    /\ entry = "none"
    /\ recheck = "none"
    /\ nAuth = 0
    /\ nQuery = 0
    /\ nSleep = 0
    /\ nPause = 0
    /\ nPauseOk = 0
    /\ nWrite = 0
    /\ nGetConfig = 0
    /\ fileAtCall = "unread"
    /\ lastCheck = -1
    /\ stopped = FALSE
    /\ stoppedEarly = FALSE

\* ------------------------------------------------------------------ a run
\* python SpotifySleepTimer.py [arg]
StartCli ==
    /\ pc = "idle"
    /\ mode' = "cli"
    /\ pc' = "main"
    /\ \E a \in Argvs : argv' = a
    /\ UNCHANGED <<music_stop_time, interval, file, config, credentials, player,
                   now, start_time, stop_time, result, entry, recheck, nAuth,
                   nQuery, nSleep, nPause, nPauseOk, nWrite, nGetConfig,
                   fileAtCall, lastCheck, stopped, stoppedEarly>>

\* sleep_timer(username, ..., music_stop_time, elapced_time_check_interval)
StartCall ==
    /\ pc = "idle"
    /\ mode' = "call"
    /\ pc' = "auth"
    /\ \E x \in StopTimes : music_stop_time' = x
    /\ \E i \in Intervals : interval' = i
    /\ credentials' = CallerCredentials
    /\ UNCHANGED <<argv, file, config, player, now, start_time, stop_time,
                   result, entry, recheck, nAuth, nQuery, nSleep, nPause,
                   nPauseOk, nWrite, nGetConfig, fileAtCall, lastCheck, stopped,
                   stoppedEarly>>

\* The process ends; only the file and the player outlive it.
Exit ==
    /\ pc = "done"
    /\ pc' = "idle"
    /\ mode' = "cli"
    /\ argv' = Val("missing", 0)
    /\ music_stop_time' = Val("NoneType", 0)
    /\ interval' = DefaultInterval
    /\ config' = NoArgs
    /\ credentials' = NoArgs
    /\ now' = 0
    /\ start_time' = -1
    /\ stop_time' = NoSpan
    /\ result' = "none"
    /\ entry' = "none"
    /\ recheck' = "none"
    /\ nAuth' = 0
    /\ nQuery' = 0
    /\ nSleep' = 0
    /\ nPause' = 0
    /\ nPauseOk' = 0
    /\ nWrite' = 0
    /\ nGetConfig' = 0
    /\ fileAtCall' = "unread"
    /\ lastCheck' = -1
    /\ stopped' = FALSE
    /\ stoppedEarly' = FALSE
    /\ UNCHANGED <<file, player>>

Fail(e) ==
    /\ result' = e
    /\ pc' = "done"

Return ==
    /\ result' = "ok"
    /\ pc' = "done"

\* Mutant: an unparsable or missing argument falls back to 0 seconds.
ParseArgv_Lenient ==
    /\ pc = "main"
    /\ LET r == Float(argv)
       IN  music_stop_time' = IF r.err # "" THEN Val("float", 0) ELSE r.value
    /\ pc' = "get_config"
    /\ UNCHANGED <<mode, argv, interval, file, config, credentials, player, now,
                   start_time, stop_time, result, entry, recheck, nAuth, nQuery,
                   nSleep, nPause, nPauseOk, nWrite, nGetConfig, fileAtCall,
                   lastCheck, stopped, stoppedEarly>>

\* Lines 150-158.
ParseArgv ==
    /\ pc = "main"
    /\ LET r == Float(argv)
       IN  \/ /\ r.err # ""
              /\ Fail("InvalidStopTime")
              /\ UNCHANGED music_stop_time
           \/ /\ r.err = ""
              /\ music_stop_time' = r.value
              /\ pc' = "get_config"
              /\ UNCHANGED result
    /\ UNCHANGED <<mode, argv, interval, file, config, credentials, player, now,
                   start_time, stop_time, entry, recheck, nAuth, nQuery, nSleep,
                   nPause, nPauseOk, nWrite, nGetConfig, fileAtCall, lastCheck,
                   stopped, stoppedEarly>>

\* Mutant: the defaults are written and then returned, without raising.
GetConfig_WriteAndReturn ==
    /\ pc = "get_config"
    /\ nGetConfig' = nGetConfig + 1
    /\ \/ /\ ~file.exists
          /\ fileAtCall' = "absent"
          /\ file' = Stored(default_config)
          /\ nWrite' = nWrite + 1
          /\ config' = default_config
          /\ pc' = "call"
       \/ /\ file.exists
          /\ fileAtCall' = "present"
          /\ config' = file.data
          /\ pc' = "call"
          /\ UNCHANGED <<file, nWrite>>
    /\ UNCHANGED <<mode, argv, music_stop_time, interval, credentials, player,
                   now, start_time, stop_time, result, entry, recheck, nAuth,
                   nQuery, nSleep, nPause, nPauseOk, lastCheck, stopped,
                   stoppedEarly>>

\* Lines 129-140 and 143-146: write the defaults, or load the file.
GetConfig ==
    /\ pc = "get_config"
    /\ nGetConfig' = nGetConfig + 1
    /\ \/ /\ ~file.exists
          /\ fileAtCall' = "absent"
          /\ file' = Stored(default_config)
          /\ nWrite' = nWrite + 1
          /\ pc' = "config_raise"
          /\ UNCHANGED config
       \/ /\ file.exists
          /\ fileAtCall' = "present"
          /\ config' = file.data
          /\ pc' = "call"
          /\ UNCHANGED <<file, nWrite>>
    /\ UNCHANGED <<mode, argv, music_stop_time, interval, credentials, player,
                   now, start_time, stop_time, result, entry, recheck, nAuth,
                   nQuery, nSleep, nPause, nPauseOk, lastCheck, stopped,
                   stoppedEarly>>

\* Line 141.
ConfigRaise ==
    /\ pc = "config_raise"
    /\ Fail("ConfigMissing")
    /\ UNCHANGED <<mode, argv, music_stop_time, interval, file, config,
                   credentials, player, now, start_time, stop_time, entry,
                   recheck, nAuth, nQuery, nSleep, nPause, nPauseOk, nWrite,
                   nGetConfig, fileAtCall, lastCheck, stopped, stoppedEarly>>

\* Lines 163-167: val if isinstance(val, str) else "".
Coerce(c) ==
    Json(ConfigKeys, {},
         IF "username" \in c.nonstr THEN "" ELSE c.username,
         IF "client_id" \in c.nonstr THEN "" ELSE c.client_id,
         IF "client_secret" \in c.nonstr THEN "" ELSE c.client_secret,
         IF "scope" \in c.nonstr THEN <<>> ELSE c.scope,
         IF "redirect_uri" \in c.nonstr THEN "" ELSE c.redirect_uri)

\* Lines 162-168: the arguments of sleep_timer; config[key] raises KeyError.
CallSleepTimer ==
    /\ pc = "call"
    /\ \/ /\ config.keys # ConfigKeys
          /\ Fail("KeyError")
          /\ UNCHANGED credentials
       \/ /\ config.keys = ConfigKeys
          /\ credentials' = Coerce(config)
          /\ pc' = "auth"
          /\ UNCHANGED result
    /\ UNCHANGED <<mode, argv, music_stop_time, interval, file, config, player,
                   now, start_time, stop_time, entry, recheck, nAuth, nQuery,
                   nSleep, nPause, nPauseOk, nWrite, nGetConfig, fileAtCall,
                   lastCheck, stopped, stoppedEarly>>

\* Lines 62-69: the session.  The client may raise (ExternalApiFailure).
Authorize ==
    /\ pc = "auth"
    /\ nAuth' = nAuth + 1
    /\ \E d \in 0 .. MaxLatency : now' = now + d
    /\ \/ /\ pc' = "check_entry"
          /\ UNCHANGED result
       \/ Fail("ExternalApiFailure")
    /\ UNCHANGED <<mode, argv, music_stop_time, interval, file, config,
                   credentials, player, start_time, stop_time, entry, recheck,
                   nQuery, nSleep, nPause, nPauseOk, nWrite, nGetConfig,
                   fileAtCall, lastCheck, stopped, stoppedEarly>>

\* Mutant: the return of line 73 left out.
CheckEntry_NoReturn ==
    /\ pc = "check_entry"
    /\ nQuery' = nQuery + 1
    /\ \E d \in 0 .. MaxLatency : now' = now + d
    /\ \/ /\ Fail("ExternalApiFailure")
          /\ UNCHANGED entry
       \/ /\ entry' = IF IsPlaying(CurrentlyPlaying(player)) THEN "T" ELSE "F"
          /\ pc' = "convert"
          /\ UNCHANGED result
    /\ UNCHANGED <<mode, argv, music_stop_time, interval, file, config,
                   credentials, player, start_time, stop_time, recheck, nAuth,
                   nSleep, nPause, nPauseOk, nWrite, nGetConfig, fileAtCall,
                   lastCheck, stopped, stoppedEarly>>

\* Lines 71-73: is_playing(spotify) at entry.
CheckEntry ==
    /\ pc = "check_entry"
    /\ nQuery' = nQuery + 1
    /\ \E d \in 0 .. MaxLatency : now' = now + d
    /\ \/ /\ Fail("ExternalApiFailure")
          /\ UNCHANGED entry
       \/ /\ ~IsPlaying(CurrentlyPlaying(player))
          /\ entry' = "F"
          /\ Return
       \/ /\ IsPlaying(CurrentlyPlaying(player))
          /\ entry' = "T"
          /\ pc' = "convert"
          /\ UNCHANGED result
    /\ UNCHANGED <<mode, argv, music_stop_time, interval, file, config,
                   credentials, player, start_time, stop_time, recheck, nAuth,
                   nSleep, nPause, nPauseOk, nWrite, nGetConfig, fileAtCall,
                   lastCheck, stopped, stoppedEarly>>

\* Lines 75-85.
Convert ==
    /\ pc = "convert"
    /\ LET r == ToDuration(music_stop_time, now)
       IN  \/ /\ r.err # ""
              /\ Fail(r.err)
              /\ UNCHANGED stop_time
           \/ /\ r.err = ""
              /\ stop_time' = r.span
              /\ pc' = "start"
              /\ UNCHANGED result
    /\ UNCHANGED <<mode, argv, music_stop_time, interval, file, config,
                   credentials, player, now, start_time, entry, recheck, nAuth,
                   nQuery, nSleep, nPause, nPauseOk, nWrite, nGetConfig,
                   fileAtCall, lastCheck, stopped, stoppedEarly>>

\* Lines 87-100.
StartTimer ==
    /\ pc = "start"
    /\ start_time' = now
    /\ pc' = "loop"
    /\ UNCHANGED <<mode, argv, music_stop_time, interval, file, config,
                   credentials, player, now, stop_time, result, entry, recheck,
                   nAuth, nQuery, nSleep, nPause, nPauseOk, nWrite, nGetConfig,
                   fileAtCall, lastCheck, stopped, stoppedEarly>>

\* Mutant: the loop polls is_playing on every iteration.
LoopCheck_Polling ==
    /\ pc = "loop"
    /\ lastCheck' = now
    /\ nQuery' = nQuery + 1
    /\ LET elapsed_time == now - start_time
       IN  \/ /\ LoopBreak(elapsed_time, stop_time)
              /\ pc' = "recheck"
           \/ /\ ~LoopBreak(elapsed_time, stop_time)
              /\ pc' = "sleep"
    /\ UNCHANGED <<mode, argv, music_stop_time, interval, file, config,
                   credentials, player, now, start_time, stop_time, result,
                   entry, recheck, nAuth, nSleep, nPause, nPauseOk, nWrite,
                   nGetConfig, fileAtCall, stopped, stoppedEarly>>

\* Mutant: the loop also breaks as soon as nothing is playing.
LoopCheck_StopsWhenSilent ==
    /\ pc = "loop"
    /\ lastCheck' = now
    /\ LET elapsed_time == now - start_time
           leave == LoopBreak(elapsed_time, stop_time)
                        \/ ~IsPlaying(CurrentlyPlaying(player))
       IN  \/ /\ leave
              /\ pc' = "recheck"
           \/ /\ ~leave
              /\ pc' = "sleep"
    /\ UNCHANGED <<mode, argv, music_stop_time, interval, file, config,
                   credentials, player, now, start_time, stop_time, result,
                   entry, recheck, nAuth, nQuery, nSleep, nPause, nPauseOk,
                   nWrite, nGetConfig, fileAtCall, stopped, stoppedEarly>>

\* Lines 102-107: one elapsed-time check.
LoopCheck ==
    /\ pc = "loop"
    /\ lastCheck' = now
    /\ LET elapsed_time == now - start_time
       IN  \/ /\ LoopBreak(elapsed_time, stop_time)
              /\ pc' = "recheck"
           \/ /\ ~LoopBreak(elapsed_time, stop_time)
              /\ pc' = "sleep"
    /\ UNCHANGED <<mode, argv, music_stop_time, interval, file, config,
                   credentials, player, now, start_time, stop_time, result,
                   entry, recheck, nAuth, nQuery, nSleep, nPause, nPauseOk,
                   nWrite, nGetConfig, fileAtCall, stopped, stoppedEarly>>

\* Line 109: sleep(elapced_time_check_interval) returns no earlier than asked.
Sleep ==
    /\ pc = "sleep"
    /\ nSleep' = nSleep + 1
    /\ \E d \in 0 .. MaxOversleep : now' = now + interval + d
    /\ pc' = "loop"
    /\ UNCHANGED <<mode, argv, music_stop_time, interval, file, config,
                   credentials, player, start_time, stop_time, result, entry,
                   recheck, nAuth, nQuery, nPause, nPauseOk, nWrite, nGetConfig,
                   fileAtCall, lastCheck, stopped, stoppedEarly>>

\* Line 111: is_playing(spotify) after the loop.
Recheck ==
    /\ pc = "recheck"
    /\ nQuery' = nQuery + 1
    /\ \E d \in 0 .. MaxLatency : now' = now + d
    /\ \/ /\ Fail("ExternalApiFailure")
          /\ UNCHANGED recheck
       \/ /\ ~IsPlaying(CurrentlyPlaying(player))
          /\ recheck' = "F"
          /\ Return
       \/ /\ IsPlaying(CurrentlyPlaying(player))
          /\ recheck' = "T"
          /\ pc' = "pause"
          /\ UNCHANGED result
    /\ UNCHANGED <<mode, argv, music_stop_time, interval, file, config,
                   credentials, player, start_time, stop_time, entry, nAuth,
                   nSleep, nPause, nPauseOk, nWrite, nGetConfig, fileAtCall,
                   lastCheck, stopped, stoppedEarly>>

\* Line 112: spotify.pause_playback() pauses the player, or raises.
Pause ==
    /\ pc = "pause"
    /\ nPause' = nPause + 1
    /\ \E d \in 0 .. MaxLatency : now' = now + d
    /\ \/ /\ Fail("ExternalApiFailure")
          /\ UNCHANGED <<player, nPauseOk>>
       \/ /\ player' = "paused"
          /\ nPauseOk' = nPauseOk + 1
          /\ pc' = "stop_message"
          /\ UNCHANGED result
    /\ UNCHANGED <<mode, argv, music_stop_time, interval, file, config,
                   credentials, start_time, stop_time, entry, recheck, nAuth,
                   nQuery, nSleep, nWrite, nGetConfig, fileAtCall, lastCheck,
                   stopped, stoppedEarly>>

\* Mutant: after pausing, the state is queried once more, which may raise.
StopMessage_Verify ==
    /\ pc = "stop_message"
    /\ nQuery' = nQuery + 1
    /\ \/ Return
       \/ Fail("ExternalApiFailure")
    /\ UNCHANGED <<mode, argv, music_stop_time, interval, file, config,
                   credentials, player, now, start_time, stop_time, entry,
                   recheck, nAuth, nSleep, nPause, nPauseOk, nWrite,
                   nGetConfig, fileAtCall, lastCheck, stopped, stoppedEarly>>

\* Line 113, and the return of sleep_timer.
StopMessage ==
    /\ pc = "stop_message"
    /\ Return
    /\ UNCHANGED <<mode, argv, music_stop_time, interval, file, config,
                   credentials, player, now, start_time, stop_time, entry,
                   recheck, nAuth, nQuery, nSleep, nPause, nPauseOk, nWrite,
                   nGetConfig, fileAtCall, lastCheck, stopped, stoppedEarly>>

\* ------------------------------------------------------------ environment
Running == pc \notin {"idle", "done"}

\* The listener, or the service, starts or stops playback at any time.
PlayerChange ==
    /\ \E p \in Players \ {player} : player' = p
    /\ stopped' = (stopped \/ (Running /\ entry = "T" /\ player = "playing"))
    /\ stoppedEarly' =
          (stoppedEarly \/ (/\ pc \in {"loop", "sleep"}
                            /\ player = "playing"
                            /\ now - start_time < stop_time.val))
    /\ UNCHANGED <<pc, mode, argv, music_stop_time, interval, file, config,
                   credentials, now, start_time, stop_time, result, entry,
                   recheck, nAuth, nQuery, nSleep, nPause, nPauseOk, nWrite,
                   nGetConfig, fileAtCall, lastCheck>>

\* Between runs the user edits or deletes ./config.json.
EditConfig ==
    /\ pc = "idle"
    /\ \E f \in {Absent} \cup {Stored(d) : d \in EditedConfigs} :
          /\ f # file
          /\ file' = f
    /\ UNCHANGED <<pc, mode, argv, music_stop_time, interval, config,
                   credentials, player, now, start_time, stop_time, result,
                   entry, recheck, nAuth, nQuery, nSleep, nPause, nPauseOk,
                   nWrite, nGetConfig, fileAtCall, lastCheck, stopped,
                   stoppedEarly>>

\* The steps of __main__ up to the call of sleep_timer.
ScriptStep ==
    \/ ParseArgv
    \/ GetConfig
    \/ ConfigRaise
    \/ CallSleepTimer

\* The steps of sleep_timer.
TimerStep ==
    \/ Authorize
    \/ CheckEntry
    \/ Convert
    \/ StartTimer
    \/ LoopCheck
    \/ Sleep
    \/ Recheck
    \/ Pause
    \/ StopMessage

Next ==
    \/ StartCli
    \/ StartCall
    \/ ScriptStep
    \/ TimerStep
    \/ Exit
    \/ PlayerChange
    \/ EditConfig

Spec == Init /\ [][Next]_vars

\* Direct calls of sleep_timer only.  The thread is scheduled, and every
\* call it makes (the API's, sleep) returns or raises.
NextTimer ==
    \/ StartCall
    \/ TimerStep
    \/ Exit
    \/ PlayerChange

TimerSpec == Init /\ [][NextTimer]_vars /\ WF_vars(TimerStep)

\* ------------------------------------------------------------------ claims
Elapsed == now - start_time
PastLoop == pc \in {"recheck", "pause", "stop_message"} \/ (pc = "done" /\ lastCheck >= 0)
Converted == entry = "T" /\ pc # "convert"

\* C1: when is_playing returns false at entry the run returns at once,
\* normally, whatever music_stop_time is: the timer never starts, nothing
\* sleeps and no pause command is issued.
C1_NotPlayingReturns ==
    entry = "F" =>
        /\ pc = "done"
        /\ result = "ok"
        /\ start_time = -1
        /\ stop_time = NoSpan
        /\ nSleep = 0
        /\ nPause = 0
        /\ nQuery = 1

\* C1's case: nothing plays at entry and the stop time is one that line 83
\* would have refused.
C1_Witness ==
    /\ entry = "F"
    /\ pc = "done"
    /\ mode = "call"
    /\ music_stop_time.kind = "dict"

\* C2: at most one pause command is issued in a run, never while the elapsed
\* time since start_time is below the duration, and a run that found playback
\* active at entry, saw it stay active and returned has issued exactly one.
C2_OnePauseAfterDuration ==
    /\ nPause <= 1
    /\ nPause > 0 => (start_time >= 0 /\ Elapsed >= stop_time.val /\ PastLoop)
    /\ (pc = "done" /\ result = "ok" /\ entry = "T" /\ ~stopped) =>
            (nPause = 1 /\ nPauseOk = 1)

\* C2's case: playback stayed active through a wait of two sleeps and was
\* paused.
C2_Witness ==
    /\ pc = "done"
    /\ result = "ok"
    /\ entry = "T"
    /\ ~stopped
    /\ nSleep >= 2
    /\ nPause = 1

\* C3: the loop is left only at a check that found elapsed beyond the
\* duration, also when playback stopped before the duration had elapsed; and
\* when the re-check after the loop finds nothing playing the run returns
\* without a pause command.
C3_NoEarlyExitNoPause ==
    /\ PastLoop => lastCheck - start_time >= stop_time.val
    /\ recheck = "F" => (pc = "done" /\ result = "ok" /\ nPause = 0)

\* C3's case: playback stopped during the wait, the loop ran on to the
\* duration, and the run ended without pausing.
C3_Witness ==
    /\ stoppedEarly
    /\ pc = "done"
    /\ recheck = "F"
    /\ nSleep >= 1
    /\ nPause = 0
    /\ lastCheck - start_time > stop_time.val

NegativeStop ==
    \/ mode = "cli" /\ pc # "idle" /\ argv.kind = "number" /\ argv.val < 0
    \/ mode = "call" /\ IsNumber(music_stop_time) /\ music_stop_time.val < 0
    \/ mode = "call" /\ IsTimedelta(music_stop_time) /\ music_stop_time.val < 0

\* C4 as stated: a run with a negative stop time fails with PastDuration
\* before any session acquisition or playback-state query, whatever plays.
C4_Original ==
    NegativeStop =>
        /\ nAuth = 0
        /\ nQuery = 0
        /\ pc = "done" => result = "PastDuration"

\* C4, amended: in a run with a negative stop time PastDuration is raised
\* only after the session was acquired and the entry query found playback
\* active; a run that found nothing playing returns normally; a run that found
\* playback active ends with PastDuration; and the timer never starts, so
\* nothing sleeps and nothing is paused.
C4_PastDurationAfterEntryCheck ==
    NegativeStop =>
        /\ result = "PastDuration" => (nAuth = 1 /\ nQuery = 1 /\ entry = "T")
        /\ entry = "F" => result = "ok"
        /\ (entry = "T" /\ pc = "done") => result = "PastDuration"
        /\ start_time = -1
        /\ stop_time = NoSpan
        /\ nSleep = 0
        /\ nPause = 0

\* C4's case: the script run with a negative argument while music plays.
C4_Witness ==
    /\ mode = "cli"
    /\ argv = Val("number", -1)
    /\ result = "PastDuration"
    /\ nAuth = 1
    /\ nQuery = 1

\* C5 as stated: a stop time that is a boolean, a mapping or of another
\* unsupported shape fails with UnconvertibleDuration once normalized, and
\* yields no duration.
C5_Original ==
    (Converted /\ music_stop_time.kind \in {"bool", "dict", "str", "NoneType"}) =>
        /\ result = "UnconvertibleDuration"
        /\ stop_time = NoSpan

\* C5, amended: a stop time that is neither a number (int, float, and bool,
\* which is an int), a datetime nor a timedelta - a mapping, a string, None -
\* fails with UnconvertibleDuration once normalized, yields no duration and
\* starts no wait; a boolean is taken as a number of seconds (True 1, False 0).
C5_UnconvertibleShapes ==
    /\ (Converted /\ music_stop_time.kind \in {"dict", "str", "NoneType"}) =>
            /\ result = "UnconvertibleDuration"
            /\ pc = "done"
            /\ stop_time = NoSpan
            /\ start_time = -1
            /\ nSleep = 0
    /\ (Converted /\ music_stop_time.kind = "bool") =>
            /\ result # "UnconvertibleDuration"
            /\ stop_time = Span(music_stop_time.val)
    /\ result = "UnconvertibleDuration" =>
            ~(IsNumber(music_stop_time) \/ IsDatetime(music_stop_time)
                \/ IsTimedelta(music_stop_time))

\* C5's case: a mapping reached the normalization and was refused.
C5_Witness ==
    /\ music_stop_time.kind = "dict"
    /\ entry = "T"
    /\ result = "UnconvertibleDuration"

\* C6: get_config on a missing file writes the default record once (empty
\* credentials, the two default scopes, the default redirect URI) and only then
\* fails with ConfigMissing; on an existing file it returns what is stored,
\* raises nothing and writes nothing.
C6_WriteThenFail ==
    /\ fileAtCall = "absent" =>
            /\ nWrite = 1
            /\ file.exists
            /\ file.data.keys = ConfigKeys
            /\ file.data.username = ""
            /\ file.data.client_id = ""
            /\ file.data.client_secret = ""
            /\ file.data.scope = <<"user-modify-playback-state", "user-read-currently-playing">>
            /\ file.data.redirect_uri = "http://localhost:8080"
            /\ pc \in {"config_raise", "done"}
            /\ pc = "done" => result = "ConfigMissing"
            /\ config = NoArgs
    /\ result = "ConfigMissing" => (fileAtCall = "absent" /\ nWrite = 1)
    /\ fileAtCall = "present" =>
            /\ nWrite = 0
            /\ file.exists
            /\ config = file.data
            /\ pc # "config_raise"
            /\ result # "ConfigMissing"
    /\ nGetConfig <= 1
    /\ nWrite > 0 => fileAtCall = "absent"

\* C6's case: a later run finds the file the bootstrap wrote and loads the
\* defaults it still holds.
C6_Witness ==
    /\ fileAtCall = "present"
    /\ pc = "call"
    /\ config = default_config
    /\ nWrite = 0

\* C7: a run that ended with an error has paused nothing, and a run whose
\* pause command took effect goes on to return normally.
C7_NoPartialSuccess ==
    /\ result \in Errors => nPauseOk = 0
    /\ nPauseOk > 0 =>
            /\ pc \in {"stop_message", "done"}
            /\ pc = "done" => result = "ok"
            /\ nPauseOk = 1

\* C7's case: the pause command itself failed.
C7_Witness ==
    /\ pc = "done"
    /\ result = "ExternalApiFailure"
    /\ nPause = 1
    /\ nPauseOk = 0

\* C8 as stated: during the wait the playback state is checked again and
\* again, once per poll interval.
C8_Original ==
    pc \in {"loop", "sleep", "recheck"} => nQuery >= 1 + nSleep

\* C8, amended: the playback state is queried once before the wait and once
\* after it, never during it; what recurs during the wait, at least one poll
\* interval apart, is the elapsed-time check.
C8_NoPollingDuringWait ==
    /\ pc \in {"convert", "start", "loop", "sleep", "recheck"} => nQuery = 1
    /\ nQuery <= 2
    /\ nQuery = 2 => PastLoop
    /\ (pc = "loop" /\ nSleep >= 1) => now - lastCheck >= interval

\* C8's case: a wait of two sleeps has ended and only the entry query was made.
C8_Witness ==
    /\ pc = "recheck"
    /\ nSleep >= 2
    /\ nQuery = 1

\* C9: a run that found no config file acquires no session, queries nothing
\* and pauses nothing; a run of the script whose argument is missing or not a
\* number ends with InvalidStopTime without calling get_config, writing the
\* file or touching the API.
C9_NoRunOnDefaults ==
    /\ fileAtCall = "absent" =>
            /\ nAuth = 0
            /\ nQuery = 0
            /\ nPause = 0
            /\ credentials = NoArgs
    /\ (mode = "cli" /\ pc # "idle" /\ Float(argv).err # "") =>
            /\ nGetConfig = 0
            /\ nWrite = 0
            /\ fileAtCall = "unread"
            /\ nAuth = 0
            /\ nQuery = 0
            /\ nPause = 0
            /\ pc \in {"main", "done"}
            /\ pc = "done" => result = "InvalidStopTime"
    /\ result = "InvalidStopTime" => (mode = "cli" /\ Float(argv).err # "")

\* C9's case: the bootstrap run has written the defaults and failed.
C9_Witness ==
    /\ pc = "done"
    /\ result = "ConfigMissing"
    /\ file = Stored(default_config)
    /\ nAuth = 0

\* C10: once in the wait loop the run reaches the re-check and then ends; the
\* loop is left exactly at a check that finds elapsed > stop_time, and a check
\* that finds elapsed <= stop_time (equal included) sleeps once more.
C10_LoopTerminates ==
    /\ (pc = "loop") ~> (pc = "recheck")
    /\ (pc = "recheck") ~> (pc = "done")
    /\ [][pc = "loop" /\ pc' # "loop" =>
            /\ stop_time.val >= 0
            /\ interval > 0
            /\ pc' = "recheck" <=> Elapsed > stop_time.val
            /\ pc' = "sleep" <=> Elapsed <= stop_time.val]_vars

\* C10's case: a check after a sleep found elapsed equal to the duration and
\* the loop sleeps again.
C10_Witness ==
    /\ pc = "sleep"
    /\ nSleep >= 1
    /\ lastCheck = now
    /\ Elapsed = stop_time.val

====
